---- MODULE Spec2Model ----
(***************************************************************************)
(* Model of ai_code_review.py: the unified-diff parser parse_diff and the  *)
(* review loop of main.  Text is modelled as TLA+ strings and a document   *)
(* as the sequence of its lines (str.splitlines()).  Python dict objects   *)
(* that are shared by reference (hunks) live in a heap and are referred to *)
(* by their index in it.                                                   *)
(***************************************************************************)
EXTENDS Integers, Sequences, FiniteSets, TLC

VARIABLES
    pc,             \* control point of the running function
    response,       \* get_pr_diff: what requests.get returned, NoResponse before
    diff_lines,     \* parse_diff: diff.splitlines()
    line_no,        \* parse_diff: position of the for loop in diff_lines
    file_changes,   \* parse_diff: list of file dicts (hunks held by reference)
    current_file,   \* parse_diff: open file dict or None
    current_hunk,   \* parse_diff: reference to the open hunk dict, NoHunk for None
    file_path,      \* parse_diff: <<>> for None, <<path>> otherwise
    heap,           \* the hunk dicts created so far, by reference
    file_index,     \* main: position of `for file_change in file_changes`
    hunk_index,     \* main: position of `for hunk_index, hunk in enumerate(...)`
    feedback,       \* main: feedback.splitlines() of the current hunk
    feedback_index, \* main: position of `for line in feedback.splitlines()`
    comment_count,  \* main: tally of line comments attempted for the hunk
    success_count,  \* main: tally of line comments posted for the hunk
    analyze_calls,  \* history of analyze_code_with_ai calls
    comment_calls   \* history of post_comment calls

parser_vars == <<response, diff_lines, line_no, file_changes, current_file,
                 current_hunk, file_path, heap>>
main_vars == <<file_index, hunk_index, feedback, feedback_index, comment_count,
               success_count, analyze_calls, comment_calls>>
vars == <<pc, response, diff_lines, line_no, file_changes, current_file, current_hunk,
          file_path, heap, file_index, hunk_index, feedback, feedback_index,
          comment_count, success_count, analyze_calls, comment_calls>>

-----------------------------------------------------------------------------
(* Strings *)

\* str.startswith
StartsWith(s, p) == Len(s) >= Len(p) /\ SubSeq(s, 1, Len(p)) = p

\* the literal p occurs in s at position i
HasAt(s, i, p) == i + Len(p) - 1 <= Len(s) /\ SubSeq(s, i, i + Len(p) - 1) = p

\* the slice s[n:] of Python, n counted from 0
SliceFrom(s, n) == IF n >= Len(s) THEN "" ELSE SubSeq(s, n + 1, Len(s))

Digits == <<"0", "1", "2", "3", "4", "5", "6", "7", "8", "9">>

IsDigit(c) == \E d \in 1..10 : Digits[d] = c

DigitValue(c) == (CHOOSE d \in 1..10 : Digits[d] = c) - 1

\* \d+ is greedy: the position after the longest run of digits that starts at i
RECURSIVE DigitsEnd(_, _)
DigitsEnd(s, i) ==
    IF i <= Len(s) /\ IsDigit(SubSeq(s, i, i)) THEN DigitsEnd(s, i + 1) ELSE i

\* (?:,\d+)? : the position after the optional count group that starts at i
OptionalCountEnd(s, i) ==
    IF HasAt(s, i, ",") /\ DigitsEnd(s, i + 1) > i + 1
    THEN DigitsEnd(s, i + 1)
    ELSE i

\* int() of a string of decimal digits
RECURSIVE ToInt(_)
ToInt(s) ==
    IF Len(s) = 0 THEN 0
    ELSE 10 * ToInt(SubSeq(s, 1, Len(s) - 1)) + DigitValue(SubSeq(s, Len(s), Len(s)))

\* re.match(r"@@ -(\d+)(?:,\d+)? \+(\d+)(?:,\d+)? @@", line)
HunkInfo(line) ==
    LET a == 5
        b == DigitsEnd(line, a)
        c == OptionalCountEnd(line, b)
        d == c + 2
        e == DigitsEnd(line, d)
        f == OptionalCountEnd(line, e)
    IN  IF /\ HasAt(line, 1, "@@ -")
           /\ b > a
           /\ HasAt(line, c, " +")
           /\ e > d
           /\ HasAt(line, f, " @@")
        THEN [matched |-> TRUE,
              group1 |-> SubSeq(line, a, b - 1),
              group2 |-> SubSeq(line, d, e - 1)]
        ELSE [matched |-> FALSE, group1 |-> "", group2 |-> ""]

-----------------------------------------------------------------------------
(* parse_diff *)

None == [none |-> TRUE]
NoHunk == 0

\* the local variables of parse_diff as one value
ParserState == [file_changes |-> file_changes, current_file |-> current_file,
                current_hunk |-> current_hunk, file_path |-> file_path,
                heap |-> heap]

InitialParserState == [file_changes |-> <<>>, current_file |-> None,
                       current_hunk |-> NoHunk, file_path |-> <<>>,
                       heap |-> <<>>]

\* FileHasHunks without the test of the hunk list
FileIsOpen(f) == f # None

\* `if current_file and current_file["hunks"]`
FileHasHunks(f) == f # None /\ Len(f.hunks) > 0

IsFileSeparator(line) == StartsWith(line, "diff --git")

IsFileHeader(line) == StartsWith(line, "--- a/") \/ StartsWith(line, "+++ b/")

IsHunkHeader(line) == StartsWith(line, "@@")

IsContentLine(st, line) ==
    /\ st.current_hunk # NoHunk
    /\ st.current_file # None
    /\ (StartsWith(line, "+") \/ StartsWith(line, "-") \/ StartsWith(line, " "))

\* the branch `if line.startswith("diff --git")`
OnFileSeparator(st) ==
    [st EXCEPT !.file_changes = IF FileHasHunks(st.current_file)
                                THEN Append(@, st.current_file)
                                ELSE @,
               !.file_path = <<>>,
               !.current_file = None,
               !.current_hunk = NoHunk]

\* OnFileHeader that leaves an already open file in place
OnFileHeaderKeepsOpenFile(st, line) ==
    LET path == SliceFrom(line, 6)
    IN  IF StartsWith(line, "+++ b/") /\ path # "/dev/null" /\ st.current_file = None
        THEN [st EXCEPT !.file_path = <<path>>,
                        !.current_file = [file |-> path, hunks |-> <<>>]]
        ELSE st

\* the branch `elif line.startswith("--- a/") or line.startswith("+++ b/")`
OnFileHeader(st, line) ==
    LET path == SliceFrom(line, 6)
    IN  IF StartsWith(line, "+++ b/") /\ path # "/dev/null"
        THEN [st EXCEPT !.file_path = <<path>>,
                        !.current_file = [file |-> path, hunks |-> <<>>]]
        ELSE st

\* `current_file["hunks"].append(current_hunk)`
AppendHunk(f, h) == [f EXCEPT !.hunks = Append(@, h)]

\* NewHunk with the start lines counted from 0
NewHunkZeroBased(hunk_info, line) ==
    [old_start |-> ToInt(hunk_info.group1) - 1,
     new_start |-> ToInt(hunk_info.group2) - 1,
     lines |-> <<>>,
     header |-> line]

\* the dict a matching hunk header creates
NewHunk(hunk_info, line) ==
    [old_start |-> ToInt(hunk_info.group1),
     new_start |-> ToInt(hunk_info.group2),
     lines |-> <<>>,
     header |-> line]

\* OnHunkHeader without the test `if current_file`
OnHunkHeaderWithoutFile(st, line) ==
    LET closed == IF st.current_hunk # NoHunk /\ st.current_file # None
                  THEN [st.current_file EXCEPT
                            !.hunks = Append(@, st.current_hunk)]
                  ELSE st.current_file
        hunk_info == HunkInfo(line)
    IN  IF hunk_info.matched
        THEN [st EXCEPT !.current_file = closed,
                        !.heap = Append(@, [old_start |-> ToInt(hunk_info.group1),
                                            new_start |-> ToInt(hunk_info.group2),
                                            lines |-> <<>>,
                                            header |-> line]),
                        !.current_hunk = Len(st.heap) + 1]
        ELSE [st EXCEPT !.current_file = closed]

\* the branch `elif line.startswith("@@")`
OnHunkHeader(st, line) ==
    IF st.current_file = None THEN st
    ELSE
        LET closed == IF st.current_hunk # NoHunk
                      THEN AppendHunk(st.current_file, st.current_hunk)
                      ELSE st.current_file
            hunk_info == HunkInfo(line)
        IN  IF hunk_info.matched
            THEN [st EXCEPT !.current_file = closed,
                            !.heap = Append(@, NewHunk(hunk_info, line)),
                            !.current_hunk = Len(st.heap) + 1]
            ELSE [st EXCEPT !.current_file = closed]

\* the branch `elif current_hunk and current_file and (...)`
OnContentLine(st, line) ==
    [st EXCEPT !.heap[st.current_hunk].lines = Append(@, line)]

\* one iteration of `for line in diff_lines`
ParseLine(st, line) ==
    IF IsFileSeparator(line) THEN OnFileSeparator(st)
    ELSE IF IsFileHeader(line) THEN OnFileHeader(st, line)
    ELSE IF IsHunkHeader(line) THEN OnHunkHeader(st, line)
    ELSE IF IsContentLine(st, line) THEN OnContentLine(st, line)
    ELSE st

\* the statements after the loop
Finish(st) ==
    LET f == IF st.current_hunk # NoHunk /\ st.current_file # None
             THEN AppendHunk(st.current_file, st.current_hunk)
             ELSE st.current_file
    IN  [st EXCEPT !.current_file = f,
                   !.file_changes = IF FileHasHunks(f) THEN Append(@, f) ELSE @]

RECURSIVE ParseLines(_, _, _)
ParseLines(st, lines, k) ==
    IF k > Len(lines) THEN Finish(st)
    ELSE ParseLines(ParseLine(st, lines[k]), lines, k + 1)

\* the final state of parse_diff on a document
ParseDiff(lines) == ParseLines(InitialParserState, lines, 1)

\* a list of file dicts with every hunk reference replaced by the dict it names
Deref(files, hp) ==
    [k \in 1..Len(files) |->
        [file |-> files[k].file,
         hunks |-> [j \in 1..Len(files[k].hunks) |-> hp[files[k].hunks[j]]]]]

\* the value parse_diff returns
Result == Deref(file_changes, heap)

-----------------------------------------------------------------------------
(* The documents parse_diff is run on *)

MaxDiffLines == 4

DiffAlphabet ==
    {"diff --git a/a.py b/a.py",
     "--- a/a.py",
     "+++ b/a.py",
     "+++ b/b.py",
     "+++ b//dev/null",
     "+++ /dev/null",
     "@@ -10,3 +10,4 @@",
     "@@ -1,2 +0,0 @@",
     "@@ -1,2 @@",
     "+x",
     "-y",
     " z",
     "index 1..2"}

\* the round trip of one file src/a.py with one hunk and four content lines
RoundTripDiff ==
    <<"diff --git a/src/a.py b/src/a.py",
      "index 1..2 100644",
      "--- a/src/a.py",
      "+++ b/src/a.py",
      "@@ -10,3 +10,4 @@",
      " a = 1",
      "+b = 2",
      " c = 3",
      " d = 4">>

\* two changed files, as `git diff` prints them
TwoFileDiff ==
    <<"diff --git a/a.py b/a.py",
      "--- a/a.py",
      "+++ b/a.py",
      "@@ -1 +1,2 @@",
      "+x",
      "@@ -7,2 +8,2 @@ def f():",
      "-y",
      "diff --git a/b.py b/b.py",
      "--- a/b.py",
      "+++ b/b.py",
      "@@ -3 +3 @@",
      "+x">>

\* a pure rename followed by a changed file
RenameDiff ==
    <<"diff --git a/old.py b/new.py",
      "similarity index 100%",
      "rename from old.py",
      "rename to new.py",
      "diff --git a/b.py b/b.py",
      "--- a/b.py",
      "+++ b/b.py",
      "@@ -3 +3 @@",
      "+x">>

\* a changed file followed by a deleted file, as `diff -u` prints them
DeletionDiff ==
    <<"--- a/a.py",
      "+++ b/a.py",
      "@@ -3 +3 @@",
      "+x",
      "--- a/b.py",
      "+++ /dev/null",
      "@@ -1,2 +0,0 @@",
      "-y",
      "-y">>

\* a hunk header without the new-file range between two hunks' lines
MalformedHeaderDiff ==
    <<"--- a/a.py",
      "+++ b/a.py",
      "@@ -10,3 +10,4 @@",
      "+x",
      "@@ -1,2 @@",
      "-y">>

ExtraDiffs ==
    {RoundTripDiff, TwoFileDiff, RenameDiff, DeletionDiff, MalformedHeaderDiff}

BoundedDiffs == UNION {[1..n -> DiffAlphabet] : n \in 0..MaxDiffLines}

Diffs == BoundedDiffs \cup ExtraDiffs

-----------------------------------------------------------------------------
(* parse_diff, one loop iteration at a time *)

MainIdle ==
    /\ file_index = 0
    /\ hunk_index = 0
    /\ feedback = <<>>
    /\ feedback_index = 0
    /\ comment_count = 0
    /\ success_count = 0
    /\ analyze_calls = <<>>
    /\ comment_calls = <<>>

SetParserState(st) ==
    /\ file_changes' = st.file_changes
    /\ current_file' = st.current_file
    /\ current_hunk' = st.current_hunk
    /\ file_path' = st.file_path
    /\ heap' = st.heap

\* no HTTP response at hand
NoResponse == [status_code |-> 0, text |-> <<>>]

ParseInit ==
    /\ pc = "parse_loop"
    /\ response = NoResponse
    /\ diff_lines \in Diffs
    /\ line_no = 1
    /\ file_changes = <<>>
    /\ current_file = None
    /\ current_hunk = NoHunk
    /\ file_path = <<>>
    /\ heap = <<>>
    /\ MainIdle

\* InLoop that leaves the last line out
InLoopStopsEarly == pc = "parse_loop" /\ line_no < Len(diff_lines)

\* `for line in diff_lines` has a line left
InLoop == pc = "parse_loop" /\ line_no <= Len(diff_lines)

NextLine(st) ==
    /\ SetParserState(st)
    /\ line_no' = line_no + 1
    /\ UNCHANGED <<pc, response, diff_lines>>
    /\ UNCHANGED main_vars

FileSeparator ==
    /\ InLoop
    /\ IsFileSeparator(diff_lines[line_no])
    /\ NextLine(OnFileSeparator(ParserState))

FileHeader ==
    /\ InLoop
    /\ ~IsFileSeparator(diff_lines[line_no])
    /\ IsFileHeader(diff_lines[line_no])
    /\ NextLine(OnFileHeader(ParserState, diff_lines[line_no]))

HunkHeader ==
    /\ InLoop
    /\ ~IsFileSeparator(diff_lines[line_no])
    /\ ~IsFileHeader(diff_lines[line_no])
    /\ IsHunkHeader(diff_lines[line_no])
    /\ NextLine(OnHunkHeader(ParserState, diff_lines[line_no]))

ContentLine ==
    /\ InLoop
    /\ ~IsFileSeparator(diff_lines[line_no])
    /\ ~IsFileHeader(diff_lines[line_no])
    /\ ~IsHunkHeader(diff_lines[line_no])
    /\ IsContentLine(ParserState, diff_lines[line_no])
    /\ NextLine(OnContentLine(ParserState, diff_lines[line_no]))

IgnoredLine ==
    /\ InLoop
    /\ ~IsFileSeparator(diff_lines[line_no])
    /\ ~IsFileHeader(diff_lines[line_no])
    /\ ~IsHunkHeader(diff_lines[line_no])
    /\ ~IsContentLine(ParserState, diff_lines[line_no])
    /\ NextLine(ParserState)

ParseReturn ==
    /\ pc = "parse_loop"
    /\ line_no > Len(diff_lines)
    /\ SetParserState(Finish(ParserState))
    /\ pc' = "parse_done"
    /\ UNCHANGED <<response, diff_lines, line_no>>
    /\ UNCHANGED main_vars

ParseNext ==
    \/ FileSeparator
    \/ FileHeader
    \/ HunkHeader
    \/ ContentLine
    \/ IgnoredLine
    \/ ParseReturn

ParseSpec == ParseInit /\ [][ParseNext]_vars

\* stepping through the loop computes what ParseDiff computes
ParseStepsAgree ==
    pc = "parse_done" => ParserState = ParseDiff(diff_lines)

-----------------------------------------------------------------------------
(* main *)

MaxFeedbackLines == 2

FeedbackAlphabet ==
    {"- **Line 2**: fix this",
     "- **Line 4**: nit",
     "- **Line two**: spell it",
     "Looks good overall."}

\* feedback on the first line of the snippet and on a line far below it,
\* between prose
ExtraFeedbacks ==
    {<<"- **Line 1**: ", "- **Suggestion**: rename", "- **Line 12**: see above">>,
     <<"Review:", "  - **Line 3**: indented", "- **Line 3** : spaced">>}

BoundedFeedbacks == UNION {[1..n -> FeedbackAlphabet] : n \in 0..MaxFeedbackLines}

\* the texts analyze_code_with_ai may return, as feedback.splitlines()
Feedbacks == BoundedFeedbacks \cup ExtraFeedbacks

\* the bodies the server may send, as lines
MainDiffs == ExtraDiffs \cup {<<>>}

\* the status codes the server may answer with
StatusCodes == {200, 404}

Responses == [status_code : StatusCodes, text : MainDiffs]

\* GetPrDiff that returns the body whatever the status code
GetPrDiffIgnoresStatus(resp) == [raised |-> FALSE, text |-> resp.text]

\* get_pr_diff after requests.get: the body on 200, an exception otherwise
GetPrDiff(resp) ==
    IF resp.status_code = 200
    THEN [raised |-> FALSE, text |-> resp.text]
    ELSE [raised |-> TRUE, text |-> <<>>]

\* what a call of post_comment does: 201, another status, or requests raises
PostOutcomes == {"posted", "failed", "raised"}

\* re.match(r"- \*\*Line (\d+)\*\*: (.*)", line)
LineNumberMatch(line) ==
    LET a == 10
        b == DigitsEnd(line, a)
    IN  IF HasAt(line, 1, "- **Line ") /\ b > a /\ HasAt(line, b, "**: ")
        THEN [matched |-> TRUE,
              group1 |-> SubSeq(line, a, b - 1),
              group2 |-> SliceFrom(line, b + 3)]
        ELSE [matched |-> FALSE, group1 |-> "", group2 |-> ""]

\* `if line.startswith("- **Line")` and `if line_number_match`
IsLineFeedback(line) == StartsWith(line, "- **Line") /\ LineNumberMatch(line).matched

\* AbsoluteLineNumber without the correction for 1-based relative lines
AbsoluteLineNumberFromZero(relative_line_number, new_start) ==
    relative_line_number + new_start

\* absolute_line_number
AbsoluteLineNumber(relative_line_number, new_start) ==
    relative_line_number + new_start - 1

\* general_comment
GeneralComment(new_start) ==
    "no specific issue found in the hunk starting at line " \o ToString(new_start)

\* "\n".join(lines)
RECURSIVE Join(_)
Join(lines) ==
    IF Len(lines) = 0 THEN ""
    ELSE IF Len(lines) = 1 THEN lines[1]
    ELSE lines[1] \o "\n" \o Join(Tail(lines))

\* Tally that counts a comment only when it was posted
TallyOfPosted(count, success_total, success) ==
    [comment_count |-> IF success THEN count + 1 ELSE count,
     success_count |-> IF success THEN success_total + 1 ELSE success_total]

\* Tally that counts every line comment as posted
TallyWithoutFailures(count, success_total, success) ==
    [comment_count |-> count + 1, success_count |-> success_total + 1]

\* the tallies after one line comment
Tally(count, success_total, success) ==
    [comment_count |-> count + 1,
     success_count |-> IF success THEN success_total + 1 ELSE success_total]

\* NeedsGeneralComment with the test inverted
NeedsGeneralCommentInverted(count) == count # 0

\* NeedsGeneralComment that never holds
NoGeneralComment(count) == FALSE

\* `if comment_count == 0`
NeedsGeneralComment(count) == count = 0

\* AfterLineComment that gives up at the first comment that is not posted
AfterLineCommentStopsOnFailure(outcome) ==
    IF outcome = "posted" THEN "for_feedback" ELSE "crashed"

\* where main continues after a call of post_comment in the feedback loop
AfterLineComment(outcome) ==
    IF outcome = "raised" THEN "crashed" ELSE "for_feedback"

\* where main continues after the general comment
AfterGeneralComment(outcome) ==
    IF outcome = "raised" THEN "crashed" ELSE "for_hunk"

\* file_change and hunk of the running iteration
\* FileChange that takes the files from the end of the list
FileChangeFromTheEnd == file_changes[Len(file_changes) + 1 - file_index]

\* `for file_change in file_changes`: the file of the current iteration
FileChange == file_changes[file_index]
Hunk == heap[FileChange.hunks[hunk_index]]

Init ==
    /\ pc = "start"
    /\ response = NoResponse
    /\ diff_lines = <<>>
    /\ line_no = 1
    /\ file_changes = <<>>
    /\ current_file = None
    /\ current_hunk = NoHunk
    /\ file_path = <<>>
    /\ heap = <<>>
    /\ MainIdle

\* get_pr_diff returns a document and parse_diff runs on it
FetchDiff ==
    /\ pc = "start"
    /\ \E resp \in Responses :
        /\ ~GetPrDiff(resp).raised
        /\ response' = resp
        /\ diff_lines' = GetPrDiff(resp).text
        /\ line_no' = Len(diff_lines') + 1
        /\ SetParserState(ParseDiff(diff_lines'))
    /\ file_index' = 1
    /\ pc' = "for_file"
    /\ UNCHANGED <<hunk_index, feedback, feedback_index, comment_count,
                   success_count, analyze_calls, comment_calls>>

\* get_pr_diff raises, on the status code or inside requests.get: main logs
\* the error and returns
FetchFails ==
    /\ pc = "start"
    /\ \/ \E resp \in Responses :
            /\ GetPrDiff(resp).raised
            /\ response' = resp
       \/ response' = response
    /\ pc' = "aborted"
    /\ UNCHANGED <<diff_lines, line_no, file_changes, current_file,
                   current_hunk, file_path, heap>>
    /\ UNCHANGED main_vars

\* `for file_change in file_changes`: the next file
EnterFile ==
    /\ pc = "for_file"
    /\ file_index <= Len(file_changes)
    /\ hunk_index' = 1
    /\ pc' = "for_hunk"
    /\ UNCHANGED parser_vars
    /\ UNCHANGED <<file_index, feedback, feedback_index, comment_count,
                   success_count, analyze_calls, comment_calls>>

\* `for file_change in file_changes`: exhausted, main returns
MainReturn ==
    /\ pc = "for_file"
    /\ file_index > Len(file_changes)
    /\ pc' = "done"
    /\ UNCHANGED parser_vars
    /\ UNCHANGED main_vars

\* `for hunk_index, hunk in enumerate(...)`: exhausted
LeaveFile ==
    /\ pc = "for_hunk"
    /\ hunk_index > Len(FileChange.hunks)
    /\ file_index' = file_index + 1
    /\ pc' = "for_file"
    /\ UNCHANGED parser_vars
    /\ UNCHANGED <<hunk_index, feedback, feedback_index, comment_count,
                   success_count, analyze_calls, comment_calls>>

AnalyzeCall(result) ==
    [file_index |-> file_index, hunk_index |-> hunk_index,
     diff_snippet |-> Join(Hunk.lines), new_start |-> Hunk.new_start,
     result |-> result]

\* analyze_code_with_ai returns the feedback of the next hunk
Analyze ==
    /\ pc = "for_hunk"
    /\ hunk_index <= Len(FileChange.hunks)
    /\ \E text \in Feedbacks :
        /\ feedback' = text
        /\ analyze_calls' = Append(analyze_calls, AnalyzeCall(<<text>>))
    /\ comment_count' = 0
    /\ success_count' = 0
    /\ feedback_index' = 1
    /\ pc' = "for_feedback"
    /\ UNCHANGED parser_vars
    /\ UNCHANGED <<file_index, hunk_index, comment_calls>>

\* analyze_code_with_ai raises: nothing in main catches it
AnalyzeRaises ==
    /\ pc = "for_hunk"
    /\ hunk_index <= Len(FileChange.hunks)
    /\ analyze_calls' = Append(analyze_calls, AnalyzeCall(<<>>))
    /\ pc' = "crashed"
    /\ UNCHANGED parser_vars
    /\ UNCHANGED <<file_index, hunk_index, feedback, feedback_index,
                   comment_count, success_count, comment_calls>>

CommentCall(kind, line_number, comment, outcome) ==
    [file_index |-> file_index, hunk_index |-> hunk_index, kind |-> kind,
     path |-> FileChange.file, line |-> line_number, body |-> comment,
     outcome |-> outcome]

\* a feedback line that matches: one call of post_comment
PostLineComment ==
    /\ pc = "for_feedback"
    /\ feedback_index <= Len(feedback)
    /\ IsLineFeedback(feedback[feedback_index])
    /\ \E outcome \in PostOutcomes :
        LET line_number_match == LineNumberMatch(feedback[feedback_index])
            relative_line_number == ToInt(line_number_match.group1)
            absolute_line_number ==
                AbsoluteLineNumber(relative_line_number, Hunk.new_start)
            comment == line_number_match.group2
            tally == Tally(comment_count, success_count, outcome = "posted")
        IN  /\ comment_calls' = Append(comment_calls,
                    CommentCall("line", absolute_line_number, comment, outcome))
            /\ pc' = AfterLineComment(outcome)
            /\ IF outcome = "raised"
               THEN UNCHANGED <<comment_count, success_count, feedback_index>>
               ELSE /\ comment_count' = tally.comment_count
                    /\ success_count' = tally.success_count
                    /\ feedback_index' = feedback_index + 1
    /\ UNCHANGED parser_vars
    /\ UNCHANGED <<file_index, hunk_index, feedback, analyze_calls>>

\* a feedback line that does not match
SkipFeedbackLine ==
    /\ pc = "for_feedback"
    /\ feedback_index <= Len(feedback)
    /\ ~IsLineFeedback(feedback[feedback_index])
    /\ feedback_index' = feedback_index + 1
    /\ UNCHANGED parser_vars
    /\ UNCHANGED <<pc, file_index, hunk_index, feedback, comment_count,
                   success_count, analyze_calls, comment_calls>>

\* the feedback is exhausted and no line comment was attempted
PostGeneralComment ==
    /\ pc = "for_feedback"
    /\ feedback_index > Len(feedback)
    /\ NeedsGeneralComment(comment_count)
    /\ \E outcome \in PostOutcomes :
        /\ comment_calls' = Append(comment_calls,
                CommentCall("general", Hunk.new_start,
                            GeneralComment(Hunk.new_start), outcome))
        /\ pc' = AfterGeneralComment(outcome)
        /\ hunk_index' = IF outcome = "raised" THEN hunk_index ELSE hunk_index + 1
    /\ UNCHANGED parser_vars
    /\ UNCHANGED <<file_index, feedback, feedback_index, comment_count,
                   success_count, analyze_calls>>

\* the feedback is exhausted and line comments were attempted
NextHunk ==
    /\ pc = "for_feedback"
    /\ feedback_index > Len(feedback)
    /\ ~NeedsGeneralComment(comment_count)
    /\ hunk_index' = hunk_index + 1
    /\ pc' = "for_hunk"
    /\ UNCHANGED parser_vars
    /\ UNCHANGED <<file_index, feedback, feedback_index, comment_count,
                   success_count, analyze_calls, comment_calls>>

Next ==
    \/ FetchDiff
    \/ FetchFails
    \/ EnterFile
    \/ MainReturn
    \/ LeaveFile
    \/ Analyze
    \/ AnalyzeRaises
    \/ PostLineComment
    \/ SkipFeedbackLine
    \/ PostGeneralComment
    \/ NextHunk

Spec == Init /\ [][Next]_vars

TypeOK ==
    /\ pc \in {"start", "aborted", "for_file", "for_hunk", "for_feedback",
               "done", "crashed"}
    /\ comment_count \in Nat
    /\ success_count \in Nat

-----------------------------------------------------------------------------
(* Properties of parse_diff, checked under ParseSpec *)

Max(S) == CHOOSE x \in S : \A y \in S : y <= x

Contains(s, p) == \E i \in 1..Len(s) : HasAt(s, i, p)

Lines == DOMAIN diff_lines

\* a `+++ b/<path>` header that names a file of the new tree
ValidNewFileHeader(line) ==
    StartsWith(line, "+++ b/") /\ SliceFrom(line, 6) # "/dev/null"

\* a new-file header that names the deletion sentinel
IsDeletionHeader(line) ==
    \/ line = "+++ /dev/null"
    \/ StartsWith(line, "+++ b/") /\ SliceFrom(line, 6) = "/dev/null"

IsOriginMarked(line) ==
    StartsWith(line, "+") \/ StartsWith(line, "-") \/ StartsWith(line, " ")

\* the hunks of the returned model, as <<file, hunk>> positions
EmittedHunks ==
    UNION {{<<k, j>> : j \in DOMAIN Result[k].hunks} : k \in DOMAIN Result}

EmittedHunk(p) == Result[p[1]].hunks[p[2]]

\* the `+++ b/<path>` header that line i follows in its `diff --git` section,
\* 0 when there is none
SectionHeader(i) ==
    LET separators == {g \in 1..(i - 1) : IsFileSeparator(diff_lines[g])}
        headers == {j \in (Max(separators) + 1)..(i - 1) :
                        ValidNewFileHeader(diff_lines[j])}
    IN  IF separators = {} THEN 0
        ELSE IF headers = {} THEN 0
        ELSE Max(headers)

\* C1: in a diff made of `diff --git` sections, every well-formed hunk header
\* that follows a `+++ b/<path>` header in its section yields a hunk of that
\* file in the returned model.
C1_EveryHunkOfEverySectionEmitted ==
    pc = "parse_done" =>
        \A i \in Lines :
            (HunkInfo(diff_lines[i]).matched /\ SectionHeader(i) # 0) =>
                \E p \in EmittedHunks :
                    /\ Result[p[1]].file = SliceFrom(diff_lines[SectionHeader(i)], 6)
                    /\ EmittedHunk(p).header = diff_lines[i]

\* C2: every FileChange of the model under construction and of the returned
\* model has a non-empty hunk list.
C2_EveryFileChangeHasHunks ==
    \A k \in DOMAIN Result : Len(Result[k].hunks) > 0

\* a file was open without hunks at a `diff --git` line, another file was returned
C2_Witness ==
    /\ pc = "parse_done"
    /\ Len(Result) >= 1
    /\ \E i \in Lines :
        /\ ValidNewFileHeader(diff_lines[i])
        /\ i < Len(diff_lines)
        /\ IsFileSeparator(diff_lines[i + 1])
        /\ \A k \in DOMAIN Result : Result[k].file # SliceFrom(diff_lines[i], 6)

\* C3 as stated: every emitted hunk has newStart >= 1.
C3_NewStartAtLeastOne ==
    \A p \in EmittedHunks : EmittedHunk(p).new_start >= 1

\* C3: every emitted hunk has newStart >= 0, and newStart = 0 only when the
\* +newStart field of its header is 0.
C3_NewStartIsHeaderField ==
    \A p \in EmittedHunks :
        /\ EmittedHunk(p).new_start >= 0
        /\ EmittedHunk(p).new_start = 0 => Contains(EmittedHunk(p).header, " +0")

\* a hunk that starts at line 0 and one that starts later were returned
C3_Witness ==
    /\ pc = "parse_done"
    /\ \E p, q \in EmittedHunks :
        /\ EmittedHunk(p).new_start = 0
        /\ EmittedHunk(q).new_start >= 1

\* line i belongs to the section of the file header at line j
InSectionOf(j, i) ==
    /\ j < i
    /\ \A m \in (j + 1)..i :
        /\ ~IsFileSeparator(diff_lines[m])
        /\ ~IsFileHeader(diff_lines[m])
        /\ ~IsDeletionHeader(diff_lines[m])

\* the text of line i occurs on no other line of the document
UniqueLine(i) == \A m \in Lines : m # i => diff_lines[m] # diff_lines[i]

\* C4: a file whose new-file header names /dev/null is not in the returned
\* model, and no hunk header or content line of its section is attached to any
\* returned FileChange.
C4_DeletedFileNeverEmitted ==
    pc = "parse_done" =>
        /\ \A k \in DOMAIN Result : Result[k].file # "/dev/null"
        /\ \A j, i \in Lines :
            (IsDeletionHeader(diff_lines[j]) /\ InSectionOf(j, i) /\ UniqueLine(i)) =>
                \A p \in EmittedHunks :
                    /\ EmittedHunk(p).header # diff_lines[i]
                    /\ \A n \in DOMAIN EmittedHunk(p).lines :
                        EmittedHunk(p).lines[n] # diff_lines[i]

\* lines a..b are the section of one file
OneFileSection(a, b) ==
    /\ a <= b
    /\ IsFileSeparator(diff_lines[a]) \/ IsFileHeader(diff_lines[a])
    /\ \A i \in (a + 1)..b : ~IsFileSeparator(diff_lines[i])
    /\ Cardinality({i \in a..b : StartsWith(diff_lines[i], "+++ ")}) <= 1
    /\ Cardinality({i \in a..b : StartsWith(diff_lines[i], "--- ")}) <= 1
    /\ \A i, j \in a..b :
        (StartsWith(diff_lines[i], "--- ") /\ StartsWith(diff_lines[j], "+++ "))
            => i < j

\* the document is two file sections, split before line s: the first has no
\* hunk header, the second has its one hunk header at line u under the header
\* at line h
TwoFilesFirstWithoutHunks(s, h, u) ==
    /\ 1 < s /\ s <= h /\ h < u /\ u <= Len(diff_lines)
    /\ OneFileSection(1, s - 1)
    /\ \A i \in 1..(s - 1) : ~IsHunkHeader(diff_lines[i])
    /\ OneFileSection(s, Len(diff_lines))
    /\ ValidNewFileHeader(diff_lines[h])
    /\ HunkInfo(diff_lines[u]).matched
    /\ \A i \in s..Len(diff_lines) : IsHunkHeader(diff_lines[i]) => i = u

\* C10: a diff of two files, the first without hunks and the second with one
\* hunk, is parsed to exactly one FileChange: the second file with its hunk.
C10_FileWithoutHunksDropped ==
    pc = "parse_done" =>
        \A s, h, u \in Lines :
            TwoFilesFirstWithoutHunks(s, h, u) =>
                /\ Len(Result) = 1
                /\ Result[1].file = SliceFrom(diff_lines[h], 6)
                /\ Len(Result[1].hunks) = 1
                /\ Result[1].hunks[1].header = diff_lines[u]
                /\ Result[1].hunks[1].lines =
                     SelectSeq(SubSeq(diff_lines, u + 1, Len(diff_lines)),
                               IsOriginMarked)

\* such a diff whose first section opened another file was parsed
C10_Witness ==
    /\ pc = "parse_done"
    /\ Len(Result) = 1
    /\ \E s, h, u \in Lines :
        /\ TwoFilesFirstWithoutHunks(s, h, u)
        /\ \E i \in 1..(s - 1) :
            /\ ValidNewFileHeader(diff_lines[i])
            /\ diff_lines[i] # diff_lines[h]

-----------------------------------------------------------------------------
(* Properties of main, checked under Spec *)

\* the post_comment calls made for hunk j of file k, in call order
CallsOf(k, j) ==
    SelectSeq(comment_calls, LAMBDA c : c.file_index = k /\ c.hunk_index = j)

\* the feedback lines of the `- **Line N**: ...` convention, in text order
FeedbackItems(text) == SelectSeq(text, IsLineFeedback)

\* the a-th analyze call returned and main has left the feedback of its hunk
HunkComplete(a) ==
    /\ analyze_calls[a].result # <<>>
    /\ a < Len(analyze_calls) \/ pc \in {"for_hunk", "for_file", "done"}

Analyzed == {a \in DOMAIN analyze_calls : HunkComplete(a)}

ItemsOf(a) == FeedbackItems(analyze_calls[a].result[1])
FileOf(a) == file_changes[analyze_calls[a].file_index]
HunkOf(a) == heap[FileOf(a).hunks[analyze_calls[a].hunk_index]]
CommentsOf(a) == CallsOf(analyze_calls[a].file_index, analyze_calls[a].hunk_index)

\* what was sent to the review host, without the outcome
Annotation(c) == [path |-> c.path, line |-> c.line, body |-> c.body]

RoundTripFeedback == <<"- **Line 2**: fix this", "- **Line 4**: nit">>

\* the annotations that the items of a feedback text stand for
\* the annotation that one matched feedback line stands for
ExpectedAnnotation(path, new_start, item_match) ==
    [path |-> path,
     line |-> ToInt(item_match.group1) + new_start - 1,
     body |-> item_match.group2]

ExpectedAnnotations(path, new_start, items) ==
    [n \in DOMAIN items |->
        ExpectedAnnotation(path, new_start, LineNumberMatch(items[n]))]

Annotations(calls) == [n \in DOMAIN calls |-> Annotation(calls[n])]

\* C5: for every feedback line `- **Line r**: c` returned for hunk h of file f,
\* main calls post_comment(f.path, r + h.newStart - 1, c); the round trip of
\* src/a.py with hunk `@@ -10,3 +10,4 @@` and feedback on lines 2 and 4 posts
\* exactly (src/a.py, 11, "fix this") and (src/a.py, 13, "nit").
C5_RelativeLineMappedToAbsolute ==
    /\ \A a \in Analyzed :
        \A items \in {ItemsOf(a)} :
            \/ items = <<>>
            \/ Annotations(CommentsOf(a)) =
                 ExpectedAnnotations(FileOf(a).file, HunkOf(a).new_start, items)
    /\ (/\ pc = "done"
        /\ diff_lines = RoundTripDiff
        /\ analyze_calls[1].result = <<RoundTripFeedback>>)
       => Annotations(comment_calls) =
            <<[path |-> "src/a.py", line |-> 11, body |-> "fix this"],
              [path |-> "src/a.py", line |-> 13, body |-> "nit"]>>

\* the round trip ran to its end with its two comments
C5_Witness ==
    /\ pc = "done"
    /\ diff_lines = RoundTripDiff
    /\ analyze_calls[1].result = <<RoundTripFeedback>>
    /\ Len(comment_calls) = 2

\* C6: for a hunk whose feedback has no line of the convention, no feedback
\* item is counted and exactly one post_comment call is made, at the hunk's
\* newStart with the general comment.
C6_OneGeneralCommentWhenNoItems ==
    /\ \A a \in Analyzed :
        ItemsOf(a) = <<>> =>
            \A calls \in {CommentsOf(a)} :
                /\ Len(calls) = 1
                /\ calls[1].kind = "general"
                /\ Annotation(calls[1]) =
                     [path |-> FileOf(a).file,
                      line |-> HunkOf(a).new_start,
                      body |-> GeneralComment(HunkOf(a).new_start)]
    /\ (pc = "for_feedback" /\ FeedbackItems(feedback) = <<>>) => comment_count = 0

\* a hunk whose feedback had text but no item was completed
C6_Witness ==
    \E a \in Analyzed :
        /\ ItemsOf(a) = <<>>
        /\ Len(analyze_calls[a].result[1]) >= 2
        /\ Len(CommentsOf(a)) = 1

\* C7: for a hunk whose feedback has k >= 1 lines of the convention, exactly k
\* post_comment calls are made, in the order of the lines, and no general
\* comment, whatever the calls return.
C7_OneCommentPerItemNoGeneral ==
    \A a \in Analyzed :
        \A items \in {ItemsOf(a)} :
            \A calls \in {CommentsOf(a)} :
                Len(items) >= 1 =>
                    /\ Len(calls) = Len(items)
                    /\ \A n \in DOMAIN calls :
                        /\ calls[n].kind = "line"
                        /\ calls[n].body = LineNumberMatch(items[n]).group2

\* a hunk with two different items was completed and none of its comments
\* was posted
C7_Witness ==
    \E a \in Analyzed :
        /\ Len(ItemsOf(a)) = 2
        /\ ItemsOf(a)[1] # ItemsOf(a)[2]
        /\ Len(CommentsOf(a)) = 2
        /\ \A n \in DOMAIN CommentsOf(a) : CommentsOf(a)[n].outcome = "failed"

\* this step is a post_comment call that returns False
FailedPost ==
    /\ Len(comment_calls') = Len(comment_calls) + 1
    /\ comment_calls'[Len(comment_calls')].outcome = "failed"

\* the step only counts and moves to the next feedback line or the next hunk
OnlyCounted ==
    /\ SubSeq(comment_calls', 1, Len(comment_calls)) = comment_calls
    /\ UNCHANGED <<file_changes, heap, file_index, feedback, analyze_calls>>
    /\ IF comment_calls'[Len(comment_calls')].kind = "line"
       THEN /\ pc' = "for_feedback"
            /\ feedback_index' = feedback_index + 1
            /\ hunk_index' = hunk_index
            /\ comment_count' = comment_count + 1
            /\ success_count' = success_count
       ELSE /\ pc' = "for_hunk"
            /\ hunk_index' = hunk_index + 1

\* every hunk analyzed so far got one call per feedback item, or one general
\* comment, and no more
NoRetry ==
    \A a \in Analyzed :
        Len(CommentsOf(a)) = IF ItemsOf(a) = <<>> THEN 1 ELSE Len(ItemsOf(a))

\* C8: a post_comment call that returns False is only counted: main goes on
\* with the next feedback item, hunk and file, and does not retry the item.
C8_FailedCommentOnlyCounted ==
    /\ [][FailedPost => OnlyCounted]_vars
    /\ [](NoRetry)

\* main ran to its end although a comment failed, and made later comments in
\* the same hunk and in a later hunk
C8_Witness ==
    /\ pc = "done"
    /\ \E p, q, r \in DOMAIN comment_calls :
        /\ p < q /\ q < r
        /\ comment_calls[p].outcome = "failed"
        /\ comment_calls[q].file_index = comment_calls[p].file_index
        /\ comment_calls[q].hunk_index = comment_calls[p].hunk_index
        /\ <<comment_calls[r].file_index, comment_calls[r].hunk_index>> #
             <<comment_calls[p].file_index, comment_calls[p].hunk_index>>

\* C9: when main has run to its end, every hunk of every FileChange of the
\* parsed model has received at least one post_comment call.
C9_EveryHunkGetsAComment ==
    pc = "done" =>
        \A k \in DOMAIN Result :
            \A j \in DOMAIN Result[k].hunks :
                \E n \in DOMAIN comment_calls :
                    /\ comment_calls[n].file_index = k
                    /\ comment_calls[n].hunk_index = j
                    /\ comment_calls[n].path = Result[k].file

\* main ran to its end over two hunks, one with line comments and one with the
\* general comment only
C9_Witness ==
    /\ pc = "done"
    /\ \E m, n \in DOMAIN comment_calls :
        /\ comment_calls[m].kind = "line"
        /\ comment_calls[n].kind = "general"

-----------------------------------------------------------------------------
(* Properties of the fetch step, checked under Spec *)

FetchFailed == pc # "start" /\ response.status_code # 200

\* C11: when fetching the patch fails, the run stops there: parse_diff has
\* produced no model and no analyze or annotate call is ever made.
C11_FetchFailureStopsRun ==
    FetchFailed =>
        /\ pc = "aborted"
        /\ diff_lines = <<>>
        /\ file_changes = <<>>
        /\ heap = <<>>
        /\ analyze_calls = <<>>
        /\ comment_calls = <<>>

\* the server answered 404 with a body that parses into hunks
C11_Witness ==
    /\ pc = "aborted"
    /\ response.status_code = 404
    /\ ParseDiff(response.text) .file_changes # <<>>

-----------------------------------------------------------------------------
(* Totality of parse_diff, checked under ParseSpec *)

RECURSIVE Fold(_, _, _)
\* the parser state after the first n lines, each taken once and in order
Fold(st, lines, n) ==
    IF n = 0 THEN st ELSE ParseLine(Fold(st, lines, n - 1), lines[n])

\* the value returned is a list of file dicts whose hunks are hunk dicts
IsModel(files, hp) ==
    \A k \in DOMAIN files :
        /\ DOMAIN files[k] = {"file", "hunks"}
        /\ Len(files[k].file) >= 0
        /\ \A j \in DOMAIN files[k].hunks :
            /\ files[k].hunks[j] \in DOMAIN hp
            /\ hp[files[k].hunks[j]].old_start \in Nat
            /\ hp[files[k].hunks[j]].new_start \in Nat
            /\ \A n \in DOMAIN hp[files[k].hunks[j]].lines :
                Len(hp[files[k].hunks[j]].lines[n]) >= 1

\* every reference parse_diff holds is None or a dict that exists
ReferencesValid ==
    /\ current_hunk \in {NoHunk} \cup DOMAIN heap
    /\ current_file # None => DOMAIN current_file = {"file", "hunks"}
    /\ current_hunk # NoHunk => current_file # None

\* the loop has a line to take, whose if/elif chain always has a branch or
\* falls through, or the statements after the loop run
StepPossible == InLoop \/ (pc = "parse_loop" /\ line_no > Len(diff_lines))

\* in the loop: the lines before line_no, and no others, have been processed,
\* and a step is possible
Parsing ==
    /\ pc = "parse_loop"
    /\ line_no \in 1..(Len(diff_lines) + 1)
    /\ ParserState = Fold(InitialParserState, diff_lines, line_no - 1)
    /\ StepPossible

Returned ==
    /\ pc = "parse_done"
    /\ line_no = Len(diff_lines) + 1
    /\ ParserState = Finish(Fold(InitialParserState, diff_lines, Len(diff_lines)))
    /\ IsModel(file_changes, heap)

-----------------------------------------------------------------------------
(* Ownership of hunks, checked under ParseSpec *)

\* the nearest `+++ b/<path>` header before line i, 0 when there is none
NearestFileHeader(i) ==
    LET headers == {j \in 1..(i - 1) : ValidNewFileHeader(diff_lines[j])}
    IN  IF headers = {} THEN 0 ELSE Max(headers)

\* the files of the returned model that hold a hunk made from line i
FilesHolding(i) ==
    {k \in DOMAIN Result :
        \E j \in DOMAIN Result[k].hunks :
            Result[k].hunks[j].header = diff_lines[i]}

\* C13: every hunk of the returned model belongs to exactly one FileChange,
\* the one named by the nearest `+++ b/<path>` header before the hunk's own
\* header line; a hunk still open when the next file's header arrives stays
\* with the previous file.
C13_HunkBelongsToNearestHeader ==
    pc = "parse_done" =>
        \A i \in Lines :
            (HunkInfo(diff_lines[i]).matched /\ UniqueLine(i)
                /\ FilesHolding(i) # {}) =>
                /\ Cardinality(FilesHolding(i)) = 1
                /\ NearestFileHeader(i) # 0
                /\ \A k \in FilesHolding(i) :
                    Result[k].file =
                        SliceFrom(diff_lines[NearestFileHeader(i)], 6)

\* the well-formed hunk-header lines that parse_diff has read so far
WellFormedHeadersRead ==
    {i \in 1..(line_no - 1) :
        /\ ~IsFileSeparator(diff_lines[i])
        /\ ~IsFileHeader(diff_lines[i])
        /\ HunkInfo(diff_lines[i]).matched}

\* the number of hunk entries in the lists of the closed files and the open one
HunkEntries ==
    LET Sizes == [k \in DOMAIN file_changes |-> Len(file_changes[k].hunks)]
        Sum[k \in 0..Len(file_changes)] ==
            IF k = 0 THEN 0 ELSE Sum[k - 1] + Sizes[k]
        open == IF current_file # None /\ pc = "parse_loop"
                THEN Len(current_file.hunks) ELSE 0
    IN  Sum[Len(file_changes)] + open

NoHunkTwice(hunks) ==
    \A a, b \in DOMAIN hunks : a # b => hunks[a] # hunks[b]

\* C14: a `@@` line without the numeric groups is ignored: no hunk dict occurs
\* more than once in the hunk list of a file, and the number of hunks held
\* by the model never exceeds the number of well-formed hunk-header lines.
C14_MalformedHeaderIgnored ==
    /\ \A k \in DOMAIN file_changes : NoHunkTwice(file_changes[k].hunks)
    /\ current_file # None => NoHunkTwice(current_file.hunks)
    /\ HunkEntries <= Cardinality(WellFormedHeadersRead)

\* parse_diff is about to read a line that begins with `+`, `-` or a space
AtOriginMarkedLine ==
    /\ pc = "parse_loop"
    /\ line_no \in Lines
    /\ IsOriginMarked(diff_lines[line_no])

HunkIsOpen == current_hunk # NoHunk /\ current_file # None

\* C15: while a hunk is open, a line that begins with `+`, `-` or a space is
\* appended verbatim to the open hunk, also when its text begins with
\* `--- a/` or `+++ b/`, and the open file and open hunk stay as they are;
\* while no hunk is open no line is stored.
C15_OriginMarkedLineAppended ==
    [][AtOriginMarkedLine =>
        IF HunkIsOpen
        THEN /\ heap' = [heap EXCEPT ![current_hunk].lines =
                                        Append(@, diff_lines[line_no])]
             /\ UNCHANGED <<current_file, current_hunk, file_changes>>
        ELSE UNCHANGED heap]_vars

-----------------------------------------------------------------------------
(* Order of the calls main makes, checked under Spec *)

\* the <<file, hunk>> positions of the parsed model, files in parsed order and
\* the hunks of a file in the order of its list
FlatHunks ==
    LET Flat[k \in 0..Len(file_changes)] ==
            IF k = 0 THEN <<>>
            ELSE Flat[k - 1] \o [j \in 1..Len(file_changes[k].hunks) |-> <<k, j>>]
    IN  Flat[Len(file_changes)]

\* the a-th analyze call is the one call for the a-th hunk of the model, and
\* a run that reaches its end has made a call for every hunk
AnalyzeCallsInOrder ==
    /\ Len(analyze_calls) <= Len(FlatHunks)
    /\ \A a \in DOMAIN analyze_calls :
        LET hunk == heap[file_changes[FlatHunks[a][1]].hunks[FlatHunks[a][2]]]
        IN  /\ analyze_calls[a].file_index = FlatHunks[a][1]
            /\ analyze_calls[a].hunk_index = FlatHunks[a][2]
            /\ analyze_calls[a].diff_snippet = Join(hunk.lines)
            /\ analyze_calls[a].new_start = hunk.new_start
    /\ pc = "done" => Len(analyze_calls) = Len(FlatHunks)

\* a step that makes an annotate call makes one, for the hunk of the latest
\* analyze call, which has returned, and makes no analyze call
AnnotateFollowsItsAnalyze ==
    comment_calls' # comment_calls =>
        /\ analyze_calls' = analyze_calls
        /\ analyze_calls # <<>>
        /\ Len(comment_calls') = Len(comment_calls) + 1
        /\ SubSeq(comment_calls', 1, Len(comment_calls)) = comment_calls
        /\ LET last == analyze_calls[Len(analyze_calls)]
               call == comment_calls'[Len(comment_calls')]
           IN  /\ last.result # <<>>
               /\ call.file_index = last.file_index
               /\ call.hunk_index = last.hunk_index
               /\ call.path = file_changes[FlatHunks[Len(analyze_calls)][1]].file

\* C16: main is sequential and keeps the order of the model: files in parsed
\* order, the hunks of a file in order, exactly one analyze call per hunk,
\* and every annotate call of a hunk after that hunk's analyze call and
\* before the analyze call of the next hunk.
C16_CallsInModelOrder ==
    /\ [](AnalyzeCallsInOrder)
    /\ [][AnnotateFollowsItsAnalyze]_vars

\* a finished run over a model of two files with an annotate call for each
C16_Witness ==
    /\ pc = "done"
    /\ Len(file_changes) = 2
    /\ Len(analyze_calls) = 2
    /\ \A a \in 1..2 :
        /\ analyze_calls[a].file_index = a
        /\ \E n \in DOMAIN comment_calls : comment_calls[n].file_index = a

\* main has ended, by its return or by an exception nothing caught
RunEnded == pc \in {"done", "crashed"}

\* the analyze calls made for the hunk at position a of FlatHunks
AnalyzeCallsFor(a) ==
    {n \in DOMAIN analyze_calls :
        /\ analyze_calls[n].file_index = FlatHunks[a][1]
        /\ analyze_calls[n].hunk_index = FlatHunks[a][2]}

\* the annotate calls made for the hunk at position a of FlatHunks
AnnotateCallsFor(a) ==
    {n \in DOMAIN comment_calls :
        /\ comment_calls[n].file_index = FlatHunks[a][1]
        /\ comment_calls[n].hunk_index = FlatHunks[a][2]}

\* C17: once the diff is obtained no failure ends the run early: when an
\* analyze call raises or an annotate call fails, every hunk of the model is
\* still analyzed, and every hunk whose analysis returned still gets an
\* annotate call.
C17_NoFailureStopsPipeline ==
    RunEnded =>
        \A a \in DOMAIN FlatHunks :
            /\ AnalyzeCallsFor(a) # {}
            /\ \A n \in AnalyzeCallsFor(a) :
                analyze_calls[n].result # <<>> => AnnotateCallsFor(a) # {}

-----------------------------------------------------------------------------
(* Hunk headers outside any file, checked under ParseSpec *)

\* no `+++ b/<path>` header has come before line i since the start or since
\* the last `diff --git` line
NoFileOpenAt(i) ==
    \A j \in 1..(i - 1) :
        ValidNewFileHeader(diff_lines[j]) =>
            \E g \in (j + 1)..(i - 1) : IsFileSeparator(diff_lines[g])

\* parse_diff is about to read a hunk header or a content line
AtHunkLine ==
    /\ pc = "parse_loop"
    /\ line_no \in Lines
    /\ ~IsFileSeparator(diff_lines[line_no])
    /\ ~IsFileHeader(diff_lines[line_no])
    /\ IsHunkHeader(diff_lines[line_no]) \/ IsOriginMarked(diff_lines[line_no])

\* a hunk header met while no file is open, and the content lines after it,
\* leave the parser state as it is
SkippedWithoutFile ==
    (AtHunkLine /\ NoFileOpenAt(line_no)) =>
        UNCHANGED <<file_changes, current_file, current_hunk, file_path, heap>>

\* while no file is open no hunk is open, and no hunk made from a header
\* outside any file is in the model
NothingKeptWithoutFile ==
    /\ (pc = "parse_loop" /\ NoFileOpenAt(line_no)) =>
            current_file = None /\ current_hunk = NoHunk
    /\ \A i \in 1..(line_no - 1) :
        (IsHunkHeader(diff_lines[i]) /\ NoFileOpenAt(i) /\ UniqueLine(i)) =>
            /\ \A h \in DOMAIN heap : heap[h].header # diff_lines[i]
            /\ \A p \in EmittedHunks : EmittedHunk(p).header # diff_lines[i]

\* C18: a hunk header met while no file is open (before any `+++ b/<path>`
\* header, or after a `diff --git` line with no valid new-file header since)
\* is skipped without changing the parser state: it opens no hunk, the
\* content lines after it are ignored, and nothing of it is in the model.
C18_HunkHeaderWithoutFileSkipped ==
    /\ [][SkippedWithoutFile]_vars
    /\ [](NothingKeptWithoutFile)

\* returned from a document in which a well-formed hunk header and a content
\* line follow a `diff --git` line with no valid new-file header
C18_Witness ==
    /\ pc = "parse_done"
    /\ \E i \in Lines :
        /\ HunkInfo(diff_lines[i]).matched
        /\ NoFileOpenAt(i)
        /\ \E g \in 1..(i - 1) : IsFileSeparator(diff_lines[g])
        /\ i + 1 \in Lines
        /\ diff_lines[i + 1] \in {"+x", "-y", " z"}

-----------------------------------------------------------------------------
(* The tallies of a hunk, checked under Spec *)

\* main is in the feedback loop of a hunk, or has just left it for the next
\* hunk of the same file
TalliesLive == pc = "for_feedback" \/ (pc = "for_hunk" /\ hunk_index > 1)

\* the position in its file of the hunk the tallies belong to
TalliedHunk == IF pc = "for_feedback" THEN hunk_index ELSE hunk_index - 1

\* the line-level annotate calls made so far for the tallied hunk
LineCalls ==
    SelectSeq(comment_calls,
              LAMBDA c : /\ c.file_index = file_index
                         /\ c.hunk_index = TalliedHunk
                         /\ c.kind = "line")

PostedCalls(calls) == SelectSeq(calls, LAMBDA c : c.outcome = "posted")

\* C19: for each hunk both tallies start at 0 and 0 <= success_count <=
\* comment_count at every step; comment_count is the number of line-level
\* annotate calls made so far for the hunk and success_count the number of
\* them that were posted; the fallback comment is counted in neither.
C19_TalliesCountLineCalls ==
    /\ 0 <= success_count
    /\ success_count <= comment_count
    /\ (pc = "for_feedback" /\ feedback_index = 1) =>
            comment_count = 0 /\ success_count = 0
    /\ TalliesLive =>
            /\ comment_count = Len(LineCalls)
            /\ success_count = Len(PostedCalls(LineCalls))

\* a hunk left with two line comments attempted and one of them posted, and
\* an earlier hunk that got the fallback comment
C19_Witness ==
    /\ pc = "for_hunk"
    /\ hunk_index > 1
    /\ comment_count = 2
    /\ success_count = 1
    /\ \E n \in DOMAIN comment_calls : comment_calls[n].kind = "general"

-----------------------------------------------------------------------------
(* The lines of a hunk, checked under ParseSpec *)

\* an old-file or new-file header line of a unified diff, whatever it names
IsHeaderOfAFile(line) == StartsWith(line, "--- ") \/ StartsWith(line, "+++ ")

\* the lines stored in the hunk dicts made so far
StoredLines ==
    UNION {{heap[h].lines[n] : n \in DOMAIN heap[h].lines} : h \in DOMAIN heap}

\* C20: in every state of parse_diff and in its result, every line stored in
\* a hunk begins with `+`, `-` or a space, and no hunk header, `diff --git`
\* line or other metadata line of the diff is stored in a hunk.
C20_OnlyContentLinesStored ==
    \A line \in StoredLines :
        /\ IsOriginMarked(line)
        /\ ~IsHunkHeader(line)
        /\ ~IsFileSeparator(line)
        /\ ~IsHeaderOfAFile(line)

====
